---- MODULE Spec2Model ----
(***************************************************************************)
(* A model of the NNTP transform proxy (src/main.ts).                      *)
(*                                                                         *)
(* Text is modelled at the level the code works at: a line (Uint8Array) or *)
(* a string is a sequence of one-character strings, so that byte-prefix    *)
(* matching, letter case, trim/split and the numeric conversion of a       *)
(* status are computed and not assumed.                                    *)
(***************************************************************************)
EXTENDS Integers, Sequences, FiniteSets, TLC

VARIABLES
  options,     \* ConnectOptions handed to every handle(): user, pass, htpasswd
  store,       \* content of the htpasswd file: the (user, password) pairs it validates
  alive,       \* the proxy process is running (the accept loop of serve())
  state,       \* per connection: NEW, CONNECTING, RELAYING, CLOSED
  attempt,     \* per connection: retry()'s attempt counter while retry() runs
  handled,     \* per connection: state of the promise returned by handle()
  authinfo,    \* per connection: RequestStream's authinfo {user, authenticated}
  pending,     \* per connection: the AUTHINFO PASS line awaiting validate(), or null
  pipes,       \* per connection: the state of each of the two pipe() pipelines
  shut,        \* per connection: the endpoints whose writable the proxy has closed
  writing,     \* per connection: the pipelines with a write to their target in flight
  clientIn,    \* per connection: lines RequestStream.transform has consumed
  upstream,    \* per connection: lines enqueued towards the upstream server
  steps,       \* per connection: per consumed line, authinfo after it and the lookup made
  serverIn,    \* per connection: lines ResponseStream.transform has consumed
  client,      \* per connection: lines enqueued towards the client
  input,       \* the line a pure function is called with outside a session
  output       \* its result; undefined before the call, and in a session

vars == << options, store, alive, state, attempt, handled, authinfo,
           pending, pipes, shut, writing, clientIn, upstream, steps, serverIn,
           client, input, output >>

sessionVars == << options, store, alive, state, attempt, handled,
                  authinfo, pending, pipes, shut, writing,
                  clientIn, upstream, steps, serverIn, client >>

-----------------------------------------------------------------------------
(* Characters and strings.                                                 *)

UpperLetters ==
  <<"A", "B", "C", "D", "E", "F", "G", "H", "I", "J", "K", "L", "M",
    "N", "O", "P", "Q", "R", "S", "T", "U", "V", "W", "X", "Y", "Z">>

LowerLetters ==
  <<"a", "b", "c", "d", "e", "f", "g", "h", "i", "j", "k", "l", "m",
    "n", "o", "p", "q", "r", "s", "t", "u", "v", "w", "x", "y", "z">>

Digits ==
  <<"0", "1", "2", "3", "4", "5", "6", "7", "8", "9">>

IndexOf(seq, c) ==
  IF \E i \in 1..Len(seq) : seq[i] = c
    THEN CHOOSE i \in 1..Len(seq) : seq[i] = c
    ELSE 0

IsUpper(c) == IndexOf(UpperLetters, c) > 0

IsLower(c) == IndexOf(LowerLetters, c) > 0

IsDigit(c) == IndexOf(Digits, c) > 0

\* The UTF-16 code unit of a character of the model's alphabet (ASCII).
charCode(c) ==
  IF IsUpper(c) THEN 64 + IndexOf(UpperLetters, c)
  ELSE IF IsLower(c) THEN 96 + IndexOf(LowerLetters, c)
  ELSE IF IsDigit(c) THEN 47 + IndexOf(Digits, c)
  ELSE IF c = "\t" THEN 9
  ELSE IF c = "\n" THEN 10
  ELSE IF c = "\r" THEN 13
  ELSE IF c = " " THEN 32
  ELSE IF c = "+" THEN 43
  ELSE IF c = "," THEN 44
  ELSE IF c = "-" THEN 45
  ELSE IF c = "." THEN 46
  ELSE IF c = "/" THEN 47
  ELSE 63

toUpperChar(c) ==
  IF IsLower(c) THEN UpperLetters[IndexOf(LowerLetters, c)] ELSE c

toLowerChar(c) ==
  IF IsUpper(c) THEN LowerLetters[IndexOf(UpperLetters, c)] ELSE c

\* String.prototype.toUpperCase / toLowerCase
toUpperCase(str) == [i \in 1..Len(str) |-> toUpperChar(str[i])]

toLowerCase(str) == [i \in 1..Len(str) |-> toLowerChar(str[i])]

\* JavaScript's null and undefined: values that are no string.
null == <<"null">>

undefined == <<"undefined">>

IsWhiteSpace(c) == c \in {" ", "\t", "\r", "\n"}

RECURSIVE trimStart(_)
trimStart(str) ==
  IF Len(str) > 0 /\ IsWhiteSpace(str[1]) THEN trimStart(Tail(str)) ELSE str

RECURSIVE trimEnd(_)
trimEnd(str) ==
  IF Len(str) > 0 /\ IsWhiteSpace(str[Len(str)])
    THEN trimEnd(SubSeq(str, 1, Len(str) - 1))
    ELSE str

\* String.prototype.trim
trim(str) == trimEnd(trimStart(str))

\* String.prototype.split(" "): the pieces between single spaces.
RECURSIVE split(_)
split(str) ==
  IF \E i \in 1..Len(str) : str[i] = " "
    THEN LET i == CHOOSE k \in 1..Len(str) :
                    str[k] = " " /\ \A j \in 1..(k - 1) : str[j] # " "
         IN  <<SubSeq(str, 1, i - 1)>> \o split(SubSeq(str, i + 1, Len(str)))
    ELSE <<str>>

\* String.prototype.includes
includes(str, part) ==
  \E i \in 0..(Len(str) - Len(part)) : SubSeq(str, i + 1, i + Len(part)) = part

\* A value interpolated into a template literal.
interpolate(v) ==
  IF v = undefined THEN <<"u", "n", "d", "e", "f", "i", "n", "e", "d">> ELSE v

\* The comparison Array.prototype.sort() uses by default: code unit order.
RECURSIVE stringLess(_, _)
stringLess(a, b) ==
  IF Len(a) = 0 THEN Len(b) > 0
  ELSE IF Len(b) = 0 THEN FALSE
  ELSE IF charCode(a[1]) # charCode(b[1]) THEN charCode(a[1]) < charCode(b[1])
  ELSE stringLess(Tail(a), Tail(b))

\* Array.prototype.sort(): the element at index k goes to the place given by
\* the number of elements that sort before it (equal elements keep their order).
sort(seq) ==
  LET n == Len(seq)
      before(j, k) ==
        stringLess(seq[j], seq[k]) \/ (seq[j] = seq[k] /\ j < k)
      place(k) == Cardinality({j \in 1..n : before(j, k)}) + 1
  IN  [i \in 1..n |-> seq[CHOOSE k \in 1..n : place(k) = i]]

-----------------------------------------------------------------------------
(* The command vocabulary and parseCommand.                                *)

\* The array literal of main.ts, in the order it is written.
COMMAND_NAMES ==
  << <<"A", "R", "T", "I", "C", "L", "E">>,
     <<"A", "U", "T", "H", "I", "N", "F", "O", " ", "U", "S", "E", "R">>,
     <<"A", "U", "T", "H", "I", "N", "F", "O", " ", "P", "A", "S", "S">>,
     <<"B", "O", "D", "Y">>,
     <<"C", "A", "P", "A", "B", "I", "L", "I", "T", "I", "E", "S">>,
     <<"D", "A", "T", "E">>,
     <<"G", "R", "O", "U", "P">>,
     <<"H", "D", "R">>,
     <<"H", "E", "A", "D">>,
     <<"H", "E", "L", "P">>,
     <<"I", "H", "A", "V", "E">>,
     <<"L", "A", "S", "T">>,
     <<"L", "I", "S", "T">>,
     <<"L", "I", "S", "T", " ", "A", "C", "T", "I", "V", "E", ".", "T", "I", "M", "E", "S">>,
     <<"L", "I", "S", "T", " ", "A", "C", "T", "I", "V", "E">>,
     <<"L", "I", "S", "T", " ", "D", "I", "S", "T", "R", "I", "B", ".", "P", "A", "T", "S">>,
     <<"L", "I", "S", "T", " ", "H", "E", "A", "D", "E", "R", "S">>,
     <<"L", "I", "S", "T", " ", "N", "E", "W", "S", "G", "R", "O", "U", "P", "S">>,
     <<"L", "I", "S", "T", " ", "O", "V", "E", "R", "V", "I", "E", "W", ".", "F", "M", "T">>,
     <<"L", "I", "S", "T", "G", "R", "O", "U", "P">>,
     <<"M", "O", "D", "E", " ", "R", "E", "A", "D", "E", "R">>,
     <<"N", "E", "W", "G", "R", "O", "U", "P", "S">>,
     <<"N", "E", "W", "N", "E", "W", "S">>,
     <<"N", "E", "X", "T">>,
     <<"O", "V", "E", "R">>,
     <<"P", "O", "S", "T">>,
     <<"Q", "U", "I", "T">>,
     <<"S", "T", "A", "T">>,
     <<"S", "L", "A", "V", "E">> >>

\* The reduce callback: each command is pushed in upper case, then in lower case.
RECURSIVE registerBothCases(_)
registerBothCases(names) ==
  IF Len(names) = 0 THEN <<>>
  ELSE <<toUpperCase(names[1]), toLowerCase(names[1])>>
         \o registerBothCases(Tail(names))

\* A slip the vocabulary invites: the names registered in the order written.
COMMANDS_Unsorted == registerBothCases(COMMAND_NAMES)

\* COMMANDS = [...].sort().reduce(...)
COMMANDS == registerBothCases(sort(COMMAND_NAMES))

\* command.every((byte, i) => byte === line[i])
startsWithCommand(line, command) ==
  \A i \in 1..Len(command) : i <= Len(line) /\ command[i] = line[i]

alice == <<"a", "l", "i", "c", "e">>

secret == <<"s", "e", "c", "r", "e", "t">>

\* The operator's upstream identity.
configuredUser == <<"p", "r", "o", "v", "i", "d", "e", "r">>

configuredPass == <<"h", "u", "n", "t", "e", "r", "2">>

UserAlice ==
  <<"A", "U", "T", "H", "I", "N", "F", "O", " ", "U", "S", "E", "R", " ", "a", "l", "i", "c", "e", "\r", "\n">>

UserBob ==
  <<"A", "U", "T", "H", "I", "N", "F", "O", " ", "U", "S", "E", "R", " ", "b", "o", "b", "\r", "\n">>

PassSecret ==
  <<"A", "U", "T", "H", "I", "N", "F", "O", " ", "P", "A", "S", "S", " ", "s", "e", "c", "r", "e", "t", "\r", "\n">>

ListLine == <<"L", "I", "S", "T", "\r", "\n">>

\* Lower-case authinfo with a capitalised second word: no entry of COMMANDS.
MixedCaseUser ==
  <<"a", "u", "t", "h", "i", "n", "f", "o", " ", "U", "s", "e", "r", " ", "b", "o", "b", "\r", "\n">>

\* The lines a client sends in the session model.
RequestLines == {UserAlice, UserBob, PassSecret, ListLine, MixedCaseUser}

\* The loop of parseCommand over COMMANDS[k..]: every match overwrites result.
RECURSIVE parseFrom(_, _, _)
parseFrom(line, k, result) ==
  IF k > Len(COMMANDS) THEN result
  ELSE parseFrom(line, k + 1,
                 IF startsWithCommand(line, COMMANDS[k])
                   THEN toUpperCase(trim(COMMANDS[k]))
                   ELSE result)

\* The lines a session's client sends in the model (see RequestLines): what
\* the loop returns for each of them, computed once.
parsedRequestLines == [line \in RequestLines |-> parseFrom(line, 1, null)]

\* parseCommand: the result of the loop started with result = null.
parseCommand(line) ==
  IF line \in RequestLines THEN parsedRequestLines[line]
                          ELSE parseFrom(line, 1, null)

-----------------------------------------------------------------------------
(* ResponseStream: the status table and the numeric conversion of a status. *)

\* The keys of ResponseCodes.
ResponseCodeKeys == {200, 201, 281, 381, 400, 481, 482, 502}

\* ResponseCodes[code] for an integer code; undefined for a missing key.
ResponseCodes(code) ==
  IF code = 200 THEN
    <<"S", "e", "r", "v", "i", "c", "e", " ", "a", "v", "a", "i", "l", "a", "b", "l", "e", ",", " ", "p", "o", "s", "t", "i", "n", "g", " ", "a", "l", "l", "o", "w", "e", "d">>
  ELSE IF code = 201 THEN
    <<"S", "e", "r", "v", "i", "c", "e", " ", "a", "v", "a", "i", "l", "a", "b", "l", "e", ",", " ", "p", "o", "s", "t", "i", "n", "g", " ", "p", "r", "o", "h", "i", "b", "i", "t", "e", "d">>
  ELSE IF code = 281 THEN
    <<"A", "u", "t", "h", "e", "n", "t", "i", "c", "a", "t", "i", "o", "n", " ", "a", "c", "c", "e", "p", "t", "e", "d">>
  ELSE IF code = 381 THEN
    <<"P", "a", "s", "s", "w", "o", "r", "d", " ", "r", "e", "q", "u", "i", "r", "e", "d">>
  ELSE IF code = 400 THEN
    <<"S", "e", "r", "v", "i", "c", "e", " ", "t", "e", "m", "p", "o", "r", "a", "r", "i", "l", "y", " ", "u", "n", "a", "v", "a", "i", "l", "a", "b", "l", "e">>
  ELSE IF code = 481 THEN
    <<"A", "u", "t", "h", "e", "n", "t", "i", "c", "a", "t", "i", "o", "n", " ", "f", "a", "i", "l", "e", "d", "/", "r", "e", "j", "e", "c", "t", "e", "d">>
  ELSE IF code = 482 THEN
    <<"A", "u", "t", "h", "e", "n", "t", "i", "c", "a", "t", "i", "o", "n", " ", "c", "o", "m", "m", "a", "n", "d", "s", " ", "i", "s", "s", "u", "e", "d", " ", "o", "u", "t", " ", "o", "f", " ", "s", "e", "q", "u", "e", "n", "c", "e">>
  ELSE IF code = 502 THEN
    <<"S", "e", "r", "v", "i", "c", "e", " ", "p", "e", "r", "m", "a", "n", "e", "n", "t", "l", "y", " ", "u", "n", "a", "v", "a", "i", "l", "a", "b", "l", "e">>
  ELSE undefined

AllDigits(str) == \A i \in 1..Len(str) : IsDigit(str[i])

RECURSIVE pow(_, _)
pow(b, n) == IF n = 0 THEN 1 ELSE b * pow(b, n - 1)

\* The value of a string of digits in base b (digit values 0..9, a..f, A..F).
digitValue(c) ==
  IF IsDigit(c) THEN IndexOf(Digits, c) - 1
  ELSE IF IndexOf(LowerLetters, c) \in 1..6 THEN 9 + IndexOf(LowerLetters, c)
  ELSE IF IndexOf(UpperLetters, c) \in 1..6 THEN 9 + IndexOf(UpperLetters, c)
  ELSE 99

RECURSIVE baseValue(_, _)
baseValue(str, b) ==
  IF Len(str) = 0 THEN 0
  ELSE baseValue(SubSeq(str, 1, Len(str) - 1), b) * b + digitValue(str[Len(str)])

AllDigitsOfBase(str, b) ==
  Len(str) > 0 /\ \A i \in 1..Len(str) : digitValue(str[i]) < b

\* The number of leading decimal digits of str.
RECURSIVE leadingDigits(_)
leadingDigits(str) ==
  IF Len(str) > 0 /\ IsDigit(str[1]) THEN 1 + leadingDigits(Tail(str)) ELSE 0

notANumber == [kind |-> "NaN", value |-> 0]

\* mantissa * 10^scale: the integer it is, or "fraction" when it is none.
decimalValue(mantissa, scale) ==
  IF scale >= 0
    THEN [kind |-> "integer", value |-> mantissa * pow(10, scale)]
  ELSE IF mantissa % pow(10, 0 - scale) = 0
    THEN [kind |-> "integer", value |-> mantissa \div pow(10, 0 - scale)]
  ELSE [kind |-> "fraction", value |-> 0]

\* The digits of the exponent, after its sign.
exponentDigits(mantissa, f, negative, digits) ==
  IF Len(digits) = 0 \/ ~AllDigits(digits) THEN notANumber
  ELSE decimalValue(mantissa,
                    (IF negative THEN 0 - baseValue(digits, 10)
                                 ELSE baseValue(digits, 10)) - f)

\* What follows "e" or "E": an optional sign and digits.
exponentPart(mantissa, f, rest) ==
  IF Len(rest) > 0 /\ rest[1] \in {"+", "-"}
    THEN exponentDigits(mantissa, f, rest[1] = "-", Tail(rest))
    ELSE exponentDigits(mantissa, f, FALSE, rest)

\* str after n integer digits and f fraction digits, `pos` characters read:
\* the end of the literal or an exponent.
afterMantissa(str, n, f, pos) ==
  IF n + f = 0 THEN notANumber
  ELSE IF pos = Len(str)
    THEN decimalValue(
           baseValue(SubSeq(str, 1, n) \o SubSeq(str, n + 2, n + 1 + f), 10),
           0 - f)
  ELSE IF str[pos + 1] \in {"e", "E"}
    THEN exponentPart(
           baseValue(SubSeq(str, 1, n) \o SubSeq(str, n + 2, n + 1 + f), 10),
           f, SubSeq(str, pos + 2, Len(str)))
  ELSE notANumber

\* str after its n leading digits: an optional "." and fraction digits.
afterInteger(str, n) ==
  IF n < Len(str) /\ str[n + 1] = "."
    THEN afterMantissa(str, n, leadingDigits(SubSeq(str, n + 2, Len(str))),
                       n + 1 + leadingDigits(SubSeq(str, n + 2, Len(str))))
    ELSE afterMantissa(str, n, 0, n)

\* An unsigned StrDecimalLiteral: digits, an optional fraction, an optional
\* exponent. The result is the integer it denotes, "fraction" when it denotes
\* no integer, NaN when str is no such literal.
unsignedDecimal(str) == afterInteger(str, leadingDigits(str))

negated(n) == [kind |-> n.kind, value |-> 0 - n.value]

\* The radix a literal's prefix 0x, 0o or 0b announces, or 0.
radixOf(t) ==
  IF Len(t) >= 2 /\ t[1] = "0"
    THEN IF t[2] \in {"x", "X"} THEN 16
         ELSE IF t[2] \in {"o", "O"} THEN 8
         ELSE IF t[2] \in {"b", "B"} THEN 2
         ELSE 0
    ELSE 0

nonDecimal(digits, radix) ==
  IF AllDigitsOfBase(digits, radix)
    THEN [kind |-> "integer", value |-> baseValue(digits, radix)]
    ELSE notANumber

\* A StringNumericLiteral without the white space around it: the empty string
\* is 0, then a hexadecimal, octal or binary integer literal or a signed
\* decimal literal; anything else is NaN.
numericLiteral(t) ==
  IF Len(t) = 0 THEN [kind |-> "integer", value |-> 0]
  ELSE IF radixOf(t) # 0 THEN nonDecimal(SubSeq(t, 3, Len(t)), radixOf(t))
  ELSE IF t[1] = "-" THEN negated(unsignedDecimal(Tail(t)))
  ELSE IF t[1] = "+" THEN unsignedDecimal(Tail(t))
  ELSE unsignedDecimal(t)

\* Number(str) for a string of the model's alphabet.
Number(str) == numericLiteral(trim(str))

\* ResponseCodes[Number(status)]: the property whose key is that number.
statusTextOf(status) ==
  LET n == Number(status)
  IN  IF n.kind = "integer" THEN ResponseCodes(n.value) ELSE undefined

\* ResponseStream's transform: the line it enqueues for `line`.
ResponseTransform(line) ==
  LET status     == SubSeq(line, 1, IF Len(line) < 3 THEN Len(line) ELSE 3)
      statusText == statusTextOf(status)
  IN  IF statusText # undefined
        THEN status \o <<" ">> \o statusText \o <<"\r", "\n">>
        ELSE line

-----------------------------------------------------------------------------
(* RequestStream: authentication substitution.                             *)

AUTHINFO_ == <<"A", "U", "T", "H", "I", "N", "F", "O", " ">>

AUTHINFO_USER == <<"A", "U", "T", "H", "I", "N", "F", "O", " ", "U", "S", "E", "R">>

AUTHINFO_PASS == <<"A", "U", "T", "H", "I", "N", "F", "O", " ", "P", "A", "S", "S">>

CRLF == <<"\r", "\n">>

\* !htpasswd: the option is missing or the empty string.
falsy(v) == v = undefined \/ v = <<>>

\* A slip: authentication is enabled whatever the options say.
newAuthinfo_AlwaysOff(opts) == [user |-> <<>>, authenticated |-> FALSE]

\* The authinfo object the constructor of RequestStream creates.
newAuthinfo(opts) == [user |-> <<>>, authenticated |-> falsy(opts.htpasswd)]

\* A slip: any password is accepted.
validate_AcceptsAll(htpasswd, user, password) == TRUE

\* validate() of the htpasswd library: whether the file named by htpasswd,
\* whose content is `store`, holds the pair (user, password).
validate(htpasswd, user, password) == <<user, password>> \in store

\* command?.includes("AUTHINFO ")
isAuthinfo(command) == command # null /\ includes(command, AUTHINFO_)

\* decoder.decode(line).trim().split(" ")[2]
thirdWord(line) ==
  LET parts == split(trim(line))
  IN  IF Len(parts) >= 3 THEN parts[3] ELSE undefined

\* The same for each line of RequestLines, computed once.
thirdWordOfRequestLines == [line \in RequestLines |-> thirdWord(line)]

argOf(line) ==
  IF line \in RequestLines THEN thirdWordOfRequestLines[line]
                          ELSE thirdWord(line)

\* The variant of transform that main.ts replaced: any line that starts with
\* AUTHINFO or authinfo is handled, its second word compared in upper case.
transform_ByPrefix(line, auth, opts) ==
  LET parts == split(trim(line))
      type  == IF Len(parts) >= 2 THEN toUpperCase(parts[2]) ELSE undefined
      arg   == argOf(line)
      head  == IF Len(line) >= 8 THEN SubSeq(line, 1, 8) ELSE <<>>
  IN  IF \/ head \notin {<<"A", "U", "T", "H", "I", "N", "F", "O">>,
                        <<"a", "u", "t", "h", "i", "n", "f", "o">>}
         \/ auth.authenticated
        THEN [line |-> line, authinfo |-> auth, lookup |-> null]
      ELSE IF type = <<"U", "S", "E", "R">>
        THEN [line |-> AUTHINFO_USER \o <<" ">> \o interpolate(opts.user) \o CRLF,
              authinfo |-> [auth EXCEPT !.user = arg],
              lookup |-> null]
      ELSE IF type = <<"P", "A", "S", "S">>
        THEN IF validate(opts.htpasswd, auth.user, arg)
               THEN [line |-> AUTHINFO_PASS \o <<" ">> \o interpolate(opts.pass) \o CRLF,
                     authinfo |-> [auth EXCEPT !.authenticated = TRUE],
                     lookup |-> <<auth.user, arg>>]
               ELSE [line |-> line, authinfo |-> auth,
                     lookup |-> <<auth.user, arg>>]
      ELSE [line |-> line, authinfo |-> auth, lookup |-> null]

\* A slip: the early return for an authenticated session is missing.
skipsSubstitution_Never(auth) == FALSE

\* if (authinfo.authenticated) { controller.enqueue(line); return; }
skipsSubstitution(auth) == auth.authenticated

\* The AUTHINFO USER branch: the claimed name is kept, the provider's sent.
userBranch(line, auth, opts, arg) ==
  [line     |-> AUTHINFO_USER \o <<" ">> \o interpolate(opts.user) \o CRLF,
   authinfo |-> [auth EXCEPT !.user = arg],
   lookup   |-> null]

\* A slip: a rejected password clears the claimed user name.
passBranch_ForgetsUser(line, auth, opts, arg) ==
  IF validate(opts.htpasswd, auth.user, arg)
    THEN [line     |-> AUTHINFO_PASS \o <<" ">> \o interpolate(opts.pass) \o CRLF,
          authinfo |-> [auth EXCEPT !.authenticated = TRUE],
          lookup   |-> <<auth.user, arg>>]
    ELSE [line     |-> line,
          authinfo |-> [auth EXCEPT !.user = <<>>],
          lookup   |-> <<auth.user, arg>>]

\* A slip: the validated branch does not record the authentication.
passBranch_NoLatch(line, auth, opts, arg) ==
  IF validate(opts.htpasswd, auth.user, arg)
    THEN [line     |-> AUTHINFO_PASS \o <<" ">> \o interpolate(opts.pass) \o CRLF,
          authinfo |-> auth,
          lookup   |-> <<auth.user, arg>>]
    ELSE [line |-> line, authinfo |-> auth, lookup |-> <<auth.user, arg>>]

\* The AUTHINFO PASS branch: validate(htpasswd, authinfo.user, arg) decides
\* between the provider's password and the line as the client sent it.
passBranch(line, auth, opts, arg) ==
  IF validate(opts.htpasswd, auth.user, arg)
    THEN [line     |-> AUTHINFO_PASS \o <<" ">> \o interpolate(opts.pass) \o CRLF,
          authinfo |-> [auth EXCEPT !.authenticated = TRUE],
          lookup   |-> <<auth.user, arg>>]
    ELSE [line |-> line, authinfo |-> auth, lookup |-> <<auth.user, arg>>]

\* RequestStream's transform, from its call to its return: the line it
\* enqueues, authinfo afterwards, and the (user, password) it asked the
\* credential store about (null when validate was not called).
transform(line, auth, opts) ==
  LET command == parseCommand(line)
      arg     == argOf(line)
  IN  IF ~isAuthinfo(command)
        THEN [line |-> line, authinfo |-> auth, lookup |-> null]
      ELSE IF skipsSubstitution(auth)
        THEN [line |-> line, authinfo |-> auth, lookup |-> null]
      ELSE IF command = AUTHINFO_USER THEN userBranch(line, auth, opts, arg)
      ELSE IF command = AUTHINFO_PASS THEN passBranch(line, auth, opts, arg)
      ELSE [line |-> line, authinfo |-> auth, lookup |-> null]

-----------------------------------------------------------------------------
(* Bounds and the inputs of the model.                                     *)

\* Concurrent client connections.
NumSessions == 2

\* Lines relayed by the whole proxy, both directions of all sessions
\* together, the ends of their sources counted with them.
MaxLines == 3

Sessions == 1..NumSessions

\* retry()'s maxAttempts option.
maxAttempts_Six == 5 + 1

maxAttempts == 5

\* The lines the upstream server sends in the session model.
ServerLines ==
  { <<"2", "8", "1", " ", "o", "k", "\r", "\n">>,
    <<"h", "i", "\r", "\n">> }

\* Contents of the htpasswd file: one that holds alice's entry, and one that
\* does not and holds an entry with an empty user name.
Stores ==
  { {<<alice, secret>>}, {<<<<>>, secret>>} }

OptionSets ==
  { [user |-> configuredUser, pass |-> configuredPass, htpasswd |-> h] :
      h \in {undefined, <<".", "h", "t", "p", "a", "s", "s", "w", "d">>} }

\* The pipelines of session n that have met the end of their stream.
endsOf(n) ==
  (IF pipes[n].request \in {"none", "piping"} THEN 0 ELSE 1)
  + (IF pipes[n].response \in {"none", "piping"} THEN 0 ELSE 1)

RECURSIVE linesUpTo(_)
linesUpTo(n) ==
  IF n = 0 THEN 0
  ELSE Len(clientIn[n]) + Len(serverIn[n]) + endsOf(n) + linesUpTo(n - 1)

\* Lines, and ends of stream, consumed so far by all pumps.
TotalLines == linesUpTo(NumSessions)

-----------------------------------------------------------------------------
(* The proxy: serve(), handle() with retry(), and the two pumps.           *)

InitSessions ==
  /\ options \in OptionSets
  /\ store \in IF falsy(options.htpasswd) THEN {{}} ELSE Stores
  /\ alive = TRUE
  /\ state = [s \in Sessions |-> "NEW"]
  /\ attempt = [s \in Sessions |-> 0]
  /\ handled = [s \in Sessions |-> "none"]
  /\ authinfo = [s \in Sessions |-> newAuthinfo(options)]
  /\ pending = [s \in Sessions |-> null]
  /\ pipes = [s \in Sessions |-> [request |-> "none", response |-> "none"]]
  /\ shut = [s \in Sessions |-> {}]
  /\ writing = [s \in Sessions |-> {}]
  /\ clientIn = [s \in Sessions |-> <<>>]
  /\ upstream = [s \in Sessions |-> <<>>]
  /\ steps = [s \in Sessions |-> <<>>]
  /\ serverIn = [s \in Sessions |-> <<>>]
  /\ client = [s \in Sessions |-> <<>>]

Init ==
  /\ InitSessions
  /\ input = <<>>
  /\ output = undefined

\* serve(): the accept loop yields a connection and calls handle(), which
\* starts retry(). Connections are numbered in the order they are accepted.
Accept(s) ==
  /\ alive
  /\ state[s] = "NEW"
  /\ \A t \in 1..(s - 1) : state[t] # "NEW"
  /\ state' = [state EXCEPT ![s] = "CONNECTING"]
  /\ handled' = [handled EXCEPT ![s] = "pending"]
  /\ UNCHANGED << options, store, alive, attempt, authinfo, pending, pipes,
                  shut, writing, clientIn, upstream, steps, serverIn, client,
                  input, output >>

\* One call of Deno.connect succeeds: retry() returns (its counter goes out of
\* scope) and handle() sets up the two pipes, which start piping.
ConnectOk(s) ==
  /\ alive
  /\ state[s] = "CONNECTING"
  /\ state' = [state EXCEPT ![s] = "RELAYING"]
  /\ handled' = [handled EXCEPT ![s] = "fulfilled"]
  /\ attempt' = [attempt EXCEPT ![s] = 0]
  /\ pipes' = [pipes EXCEPT ![s] = [request |-> "piping", response |-> "piping"]]
  /\ UNCHANGED << options, store, alive, authinfo, pending, shut, writing,
                  clientIn, upstream, steps, serverIn, client, input, output >>

\* One call of Deno.connect fails. Below maxAttempts retry() waits and goes
\* round its loop; at maxAttempts it throws RetryError, handle() rejects, and
\* as serve() neither awaits nor catches handle() the rejection is unhandled:
\* the runtime ends the process, and with it every open connection.
ConnectFail(s) ==
  /\ alive
  /\ state[s] = "CONNECTING"
  /\ IF attempt[s] + 1 >= maxAttempts
       THEN /\ handled' = [handled EXCEPT ![s] = "rejected"]
            /\ alive' = FALSE
            /\ state' = [t \in Sessions |->
                           IF state[t] = "NEW" THEN "NEW" ELSE "CLOSED"]
            /\ UNCHANGED attempt
       ELSE /\ attempt' = [attempt EXCEPT ![s] = @ + 1]
            /\ UNCHANGED << handled, alive, state >>
  /\ UNCHANGED << options, store, authinfo, pending, pipes, shut, writing,
                  clientIn, upstream, steps, serverIn, client, input, output >>

\* The two pipelines of a session: pipe(conn, server, ...) is the request
\* direction, pipe(server, conn, ...) the response direction.
Directions == {"request", "response"}

\* The writable side of a TransformStream calls transform for the next chunk
\* only when the promise of the call before it has settled.
transformIdle(s) == pending[s] = null

\* pipeTo reads from the readable side of the TransformStream only when its
\* target is ready for a write, and the TransformStream calls transform only
\* when its readable side is read: no call while a write is in flight.
targetReady(s, dir) == dir \notin writing[s]

\* A slip: authinfo is one object for all connections (created outside
\* the constructor of RequestStream).
Commit_SharedAuthinfo(s, r) ==
  /\ authinfo' = [t \in Sessions |-> r.authinfo]
  /\ upstream' = [upstream EXCEPT ![s] = Append(@, r.line)]
  /\ writing' = [writing EXCEPT ![s] = @ \cup {"request"}]
  /\ steps' = [steps EXCEPT ![s] =
                 Append(@, [authinfo |-> r.authinfo, lookup |-> r.lookup])]

\* The result of transform is enqueued and authinfo updated; pipeTo takes the
\* line from the readable side and starts to write it to the upstream.
Commit(s, r) ==
  /\ authinfo' = [authinfo EXCEPT ![s] = r.authinfo]
  /\ upstream' = [upstream EXCEPT ![s] = Append(@, r.line)]
  /\ writing' = [writing EXCEPT ![s] = @ \cup {"request"}]
  /\ steps' = [steps EXCEPT ![s] =
                 Append(@, [authinfo |-> r.authinfo, lookup |-> r.lookup])]

\* The client->upstream pump hands a line to RequestStream.transform. A call
\* that reaches `await validate(...)` is suspended there; any other call
\* runs to its end.
ClientLine(s, line) ==
  /\ alive
  /\ pipes[s].request = "piping"
  /\ transformIdle(s)
  /\ targetReady(s, "request")
  /\ TotalLines < MaxLines
  /\ clientIn' = [clientIn EXCEPT ![s] = Append(@, line)]
  /\ LET r == transform(line, authinfo[s], options)
     IN  IF r.lookup # null
           THEN /\ pending' = [pending EXCEPT ![s] = line]
                /\ UNCHANGED << authinfo, upstream, steps, writing >>
           ELSE /\ Commit(s, r)
                /\ UNCHANGED pending
  /\ UNCHANGED << options, store, alive, state, attempt, handled, pipes,
                  shut, serverIn, client, input, output >>

\* The readable side of the RequestStream of session s has been cancelled:
\* the write to the upstream failed, and controller.enqueue throws from then
\* on. A call of transform can be suspended in a settled pipeline only after
\* such a cancel: the other endings wait for the call or end it. As a write
\* fails only while it is in flight, and no call starts during a write, the
\* pipelines of handle() are not cancelled while a call is suspended.
enqueueThrows(s) == pipes[s].request \in {"cancelling", "settled"}

\* validate() resolves and the suspended transform resumes, whatever became
\* of the pipeline meanwhile: authinfo is updated, then the line is enqueued.
\* After end-of-stream or a failure of the source the writable side waits for
\* this write and the line is forwarded; after a cancel enqueue throws and
\* the line is lost, with authinfo already updated.
ValidateReturn(s) ==
  /\ alive
  /\ pipes[s].request \notin {"none", "erroring"}
  /\ pending[s] # null
  /\ IF enqueueThrows(s)
       THEN /\ authinfo' = [authinfo EXCEPT ![s] =
                              transform(pending[s], authinfo[s], options).authinfo]
            /\ UNCHANGED << upstream, steps, writing >>
       ELSE Commit(s, transform(pending[s], authinfo[s], options))
  /\ pending' = [pending EXCEPT ![s] = null]
  /\ UNCHANGED << options, store, alive, state, attempt, handled, pipes,
                  shut, clientIn, serverIn, client, input, output >>

\* The upstream->client pump hands a line to ResponseStream.transform, and
\* pipeTo starts to write the result to the client.
ServerLine(s, line) ==
  /\ alive
  /\ pipes[s].response = "piping"
  /\ targetReady(s, "response")
  /\ TotalLines < MaxLines
  /\ serverIn' = [serverIn EXCEPT ![s] = Append(@, line)]
  /\ client' = [client EXCEPT ![s] = Append(@, ResponseTransform(line))]
  /\ writing' = [writing EXCEPT ![s] = @ \cup {"response"}]
  /\ UNCHANGED << options, store, alive, state, attempt, handled, authinfo,
                  pending, pipes, shut, clientIn, upstream, steps, input,
                  output >>

\* The write a pipeline has started to its target is done.
WriteDone(s, dir) ==
  /\ alive
  /\ dir \in writing[s]
  /\ writing' = [writing EXCEPT ![s] = @ \ {dir}]
  /\ UNCHANGED << options, store, alive, state, attempt, handled, authinfo,
                  pending, pipes, shut, clientIn, upstream, steps, serverIn,
                  client, input, output >>

Next ==
  \/ \E s \in Sessions : Accept(s)
  \/ \E s \in Sessions : ConnectOk(s)
  \/ \E s \in Sessions : ConnectFail(s)
  \/ \E s \in Sessions, line \in RequestLines : ClientLine(s, line)
  \/ \E s \in Sessions : ValidateReturn(s)
  \/ \E s \in Sessions, line \in ServerLines : ServerLine(s, line)
  \/ \E s \in Sessions, dir \in Directions : WriteDone(s, dir)

Spec == Init /\ [][Next]_vars

-----------------------------------------------------------------------------
(* The ends of a session: pipe() when a source ends or fails, a write      *)
(* fails, or validate() throws.                                            *)

\* The endpoint a pipeline writes to: pipe(conn, server, ...) is the request
\* direction, pipe(server, conn, ...) the response direction.
targetOf(dir) == IF dir = "request" THEN "server" ELSE "conn"

\* How a running pipeline comes to its end: its source is at end-of-stream
\* (closing), its source fails (aborting), a write to its target fails
\* (cancelling), or its transform throws (erroring).
Ending == {"closing", "aborting", "cancelling", "erroring"}

\* pipeTo is called without options: the target is closed with the source.
preventClose == FALSE

\* A slip: the promise of pipeTo is left without a handler.
pipeCatches_Missing == FALSE

\* .catch((_error) => { ... }): a rejection of pipeTo is handled.
pipeCatches == TRUE

\* The endpoints whose writable pipeTo closes or aborts when it ends by `how`.
closedBy(how, dir) ==
  IF how = "closing" THEN (IF preventClose THEN {} ELSE {targetOf(dir)})
  ELSE IF how \in {"aborting", "erroring"} THEN {targetOf(dir)}
  ELSE {}

\* A running pipeline of session s observes end-of-stream or an error on its
\* source, or a write to its target that is in flight fails, and it starts to
\* shut down. A shutdown that waits for the writes in flight before it closes
\* or aborts the target is overtaken when such a write fails: the target's
\* writable is errored, and pipeTo neither closes nor aborts it.
PipeEnds(s, dir, how) ==
  /\ alive
  /\ how \in Ending \ {"erroring"}
  /\ IF how = "cancelling"
       THEN /\ dir \in writing[s]
            /\ \/ pipes[s][dir] = "piping" /\ TotalLines < MaxLines
               \/ pipes[s][dir] \in {"closing", "aborting", "erroring"}
            /\ writing' = [writing EXCEPT ![s] = @ \ {dir}]
       ELSE /\ pipes[s][dir] = "piping" /\ TotalLines < MaxLines
            /\ UNCHANGED writing
  /\ pipes' = [pipes EXCEPT ![s][dir] = how]
  /\ state' = [state EXCEPT ![s] = "CLOSING"]
  /\ UNCHANGED << options, store, alive, attempt, handled, authinfo, pending,
                  shut, clientIn, upstream, steps, serverIn, client, input,
                  output >>

\* validate() throws while transform awaits it: transform's promise rejects
\* and the line is never enqueued. A TransformStream that is running, or
\* whose writable side waits for this write, is errored; one whose readable
\* side was cancelled is errored already.
ValidateThrows(s) ==
  /\ alive
  /\ pipes[s].request \notin {"none", "erroring"}
  /\ pending[s] # null
  /\ pending' = [pending EXCEPT ![s] = null]
  /\ IF enqueueThrows(s)
       THEN UNCHANGED << pipes, state >>
       ELSE /\ pipes' = [pipes EXCEPT ![s].request = "erroring"]
            /\ state' = [state EXCEPT ![s] = "CLOSING"]
  /\ UNCHANGED << options, store, alive, attempt, handled, authinfo,
                  shut, writing, clientIn, upstream, steps, serverIn, client,
                  input, output >>

\* pipeTo finishes its shutdown. After end-of-stream, or after a failure of
\* the source, it waits for the call of transform and for the writes to the
\* target that are in flight, then closes (or aborts) the target; after a
\* throw of transform it waits for the writes in flight and aborts the
\* target; after a failed write to the target, also one that overtakes a
\* shutdown already started, it cancels the source without waiting and
\* leaves the target as it is. Its promise rejects
\* after every ending but end-of-stream. A rejection that nothing handles
\* ends the process.
PipeSettles(s, dir) ==
  /\ alive
  /\ pipes[s][dir] \in Ending
  /\ (dir = "request" /\ pipes[s][dir] \in {"closing", "aborting"})
       => pending[s] = null
  /\ pipes[s][dir] # "cancelling" => dir \notin writing[s]
  /\ pipes' = [pipes EXCEPT ![s][dir] = "settled"]
  /\ shut' = [shut EXCEPT ![s] = @ \cup closedBy(pipes[s][dir], dir)]
  /\ IF pipes[s][dir] # "closing" /\ ~pipeCatches
       THEN /\ alive' = FALSE
            /\ state' = [t \in Sessions |->
                           IF state[t] = "NEW" THEN "NEW" ELSE "CLOSED"]
       ELSE /\ alive' = alive
            /\ state' = [state EXCEPT ![s] =
                           IF \A d \in Directions \ {dir} : pipes[s][d] = "settled"
                             THEN "CLOSED" ELSE "CLOSING"]
  /\ UNCHANGED << options, store, attempt, handled, authinfo, pending,
                  writing, clientIn, upstream, steps, serverIn, client, input,
                  output >>

NextPipe ==
  \/ Next
  \/ \E s \in Sessions, dir \in Directions, how \in Ending : PipeEnds(s, dir, how)
  \/ \E s \in Sessions : ValidateThrows(s)
  \/ \E s \in Sessions, dir \in Directions : PipeSettles(s, dir)

\* The runtime runs a shutdown that has started to its end, the promise of
\* validate() settles, and a write in flight is done unless it fails.
FairPipe ==
  \A s \in Sessions :
    /\ WF_vars(ValidateReturn(s) \/ ValidateThrows(s))
    /\ \A dir \in Directions :
         /\ WF_vars(PipeSettles(s, dir))
         /\ WF_vars(WriteDone(s, dir))

SpecPipe == Init /\ [][NextPipe]_vars /\ FairPipe

-----------------------------------------------------------------------------
(* parseCommand and ResponseStream's transform applied to lines drawn from  *)
(* bounded sets, outside any session.                                      *)

Range(seq) == {seq[i] : i \in 1..Len(seq)}

\* The first letter in upper case, the rest in lower case.
capitalize(str) ==
  [i \in 1..Len(str) |-> IF i = 1 THEN toUpperChar(str[i]) ELSE toLowerChar(str[i])]

LineEndings ==
  { <<>>, CRLF, <<" ", "x", "\r", "\n">>, <<"S", "\r", "\n">>,
    <<".", "T", "I", "M", "E", "S", "\r", "\n">> }

\* Every command name in upper, lower and capitalised spelling, alone or
\* followed by an ending; every name cut short by one character; and lines
\* that start with no command.
ParseLines ==
  UNION { { toUpperCase(n) \o e, toLowerCase(n) \o e, capitalize(n) \o e } :
            n \in Range(COMMAND_NAMES), e \in LineEndings }
  \cup { SubSeq(n, 1, Len(n) - 1) \o CRLF : n \in Range(COMMAND_NAMES) }
  \cup { <<>>, CRLF, <<"X", "O", "V", "E", "R", " ", "1", "\r", "\n">> }

InitParse ==
  /\ InitSessions
  /\ input \in ParseLines
  /\ output = undefined

ParseCall ==
  /\ output = undefined
  /\ output' = parseCommand(input)
  /\ UNCHANGED << sessionVars, input >>

SpecParse == InitParse /\ [][ParseCall]_vars

StatusChars == {"0", "1", "2", "3", "4", "5", "8", "e", " ", "."}

\* Every three characters of StatusChars followed by text or by nothing, and
\* lines shorter than a status.
ResponseLines ==
  { <<a, b, c>> \o e : a \in StatusChars, b \in StatusChars, c \in StatusChars,
                      e \in { <<" ", "a", "p", "p", "l", "e", "s", "\r", "\n">>, CRLF } }
  \cup { <<>>, CRLF, <<".", "\r", "\n">>, <<"2", "0">> }

InitResponse ==
  /\ InitSessions
  /\ input \in ResponseLines
  /\ output = undefined

ResponseCall ==
  /\ output = undefined
  /\ output' = ResponseTransform(input)
  /\ UNCHANGED << sessionVars, input >>

SpecResponse == InitResponse /\ [][ResponseCall]_vars

-----------------------------------------------------------------------------
(* The upstream->client pump on a multi-line response.                     *)

\* Lines in the body of a multi-line response.
MaxBodyLines == 2

\* Status lines that announce a multi-line response (LIST, ARTICLE).
MultiLineStatus ==
  { <<"2", "1", "5", " ", "l", "i", "s", "t", "\r", "\n">>,
    <<"2", "2", "0", " ", "0", " ", "a", "r", "t", "i", "c", "l", "e", "\r", "\n">> }

BodyLines ==
  { <<"2", "0", "0", " ", "a", "p", "p", "l", "e", "s", "\r", "\n">>,
    <<"4", "8", "1", "\r", "\n">>,
    <<"h", "e", "l", "l", "o", "\r", "\n">>,
    <<"\r", "\n">> }

RECURSIVE BodiesOf(_)
\* The bodies of up to n lines.
BodiesOf(n) ==
  IF n = 0 THEN { <<>> }
  ELSE BodiesOf(n - 1)
       \cup { Append(b, line) : b \in BodiesOf(n - 1), line \in BodyLines }

\* A status line, a body, and the line that holds only ".".
Responses ==
  { <<status>> \o body \o << <<".", "\r", "\n">> >> :
      status \in MultiLineStatus, body \in BodiesOf(MaxBodyLines) }

\* pipe(server, conn, new ResponseStream()) fed with the lines: transform is
\* called on each, and keeps nothing from one call to the next.
responsePump(lines) == [i \in 1..Len(lines) |-> ResponseTransform(lines[i])]

InitBody ==
  /\ InitSessions
  /\ input \in Responses
  /\ output = undefined

ResponsePumpCall ==
  /\ output = undefined
  /\ output' = responsePump(input)
  /\ UNCHANGED << sessionVars, input >>

SpecBody == InitBody /\ [][ResponsePumpCall]_vars

-----------------------------------------------------------------------------
(* The waits of retry() between the attempts of handle()'s connect.        *)

\* The values Math.random() takes in the model: r / RandomSteps for r in
\* 0..RandomSteps - 1.
RandomSteps == 4

\* A slip: no growth of the delay.
multiplier_One == 2 - 1

\* The options handle() passes to retry().
multiplier == 2

maxTimeout == 60000

minTimeout == 100

jitter == 1

min(a, b) == IF a <= b THEN a ELSE b

\* retry()'s exponential backoff before jitter for its attempt counter:
\* Math.min(cap, base * multiplier ** attempt).
exponentialBackoff(k) == min(maxTimeout, minTimeout * pow(multiplier, k))

\* The wait with jitter, (1 - jitter * Math.random()) * exp, in whole
\* milliseconds, for Math.random() = r / RandomSteps.
timeoutOf(k, r) ==
  ((RandomSteps - jitter * r) * exponentialBackoff(k)) \div RandomSteps

\* The waits of a retry() whose attempts all fail: after the failure with
\* attempt counter k (0, 1, ...) it waits, except after the last attempt,
\* where it throws. Each wait as << delay before jitter, delay >>.
waitsOf(randoms) ==
  [i \in 1..(maxAttempts - 1) |->
     << exponentialBackoff(i - 1), timeoutOf(i - 1, randoms[i]) >>]

InitRetry ==
  /\ InitSessions
  /\ input \in [1..(maxAttempts - 1) -> 0..(RandomSteps - 1)]
  /\ output = undefined

RetryCall ==
  /\ output = undefined
  /\ output' = waitsOf(input)
  /\ UNCHANGED << sessionVars, input >>

SpecRetry == InitRetry /\ [][RetryCall]_vars

-----------------------------------------------------------------------------
(* C7: the response normaliser.                                            *)

\* The three-digit code a line starts with, or -1 when its first three
\* characters are not three decimal digits.
leadingCode(line) ==
  IF Len(line) >= 3 /\ AllDigits(SubSeq(line, 1, 3))
    THEN baseValue(SubSeq(line, 1, 3), 10)
    ELSE -1

\* C7: a line whose first three bytes are three decimal digits forming a code
\* of ResponseCodes is replaced by "<code> <canonicalText>\r\n"; every other
\* line, also one whose first three bytes are not three digits, is output
\* byte for byte.
C7_RewriteOnlyThreeDigitCodes ==
  output # undefined =>
    IF leadingCode(input) \in ResponseCodeKeys
      THEN output = SubSeq(input, 1, 3) \o <<" ">>
                      \o ResponseCodes(leadingCode(input)) \o CRLF
      ELSE output = input

-----------------------------------------------------------------------------
(* C10: parseCommand prefers the longest matching entry.                   *)

Vocabulary ==
  UNION { {toUpperCase(n), toLowerCase(n)} : n \in Range(COMMAND_NAMES) }

IsPrefix(p, line) == Len(p) <= Len(line) /\ SubSeq(line, 1, Len(p)) = p

MatchingEntries(line) == {c \in Vocabulary : IsPrefix(c, line)}

LongestMatch(line) ==
  CHOOSE c \in MatchingEntries(line) :
    \A d \in MatchingEntries(line) : Len(d) <= Len(c)

\* C10: parseCommand returns, in upper case, the longest entry of the
\* vocabulary that is a prefix of the line, never a shorter one, and null
\* when no entry is a prefix.
C10_LongestMatchWins ==
  output # undefined =>
    IF MatchingEntries(input) = {}
      THEN output = null
      ELSE output = toUpperCase(LongestMatch(input))

\* A line that three entries match (LIST, LIST ACTIVE, LIST ACTIVE.TIMES) has
\* been parsed to the longest of them.
C10_Witness ==
  /\ output # undefined
  /\ Cardinality(MatchingEntries(input)) >= 3
  /\ output = <<"L", "I", "S", "T", " ", "A", "C", "T", "I", "V", "E", ".", "T", "I", "M", "E", "S">>

-----------------------------------------------------------------------------
(* The claims about sessions.                                              *)

\* A credential store is configured.
Configured == ~falsy(options.htpasswd)

\* The lines of session s that transform has finished with.
Done(s) == 1..Len(steps[s])

\* AuthState before the i-th line of session s.
authBefore(s, i) ==
  IF i = 1 THEN [user |-> <<>>, authenticated |-> ~Configured]
           ELSE steps[s][i - 1].authinfo

IsUserLine(line) == parseCommand(line) = AUTHINFO_USER

IsPassLine(line) == parseCommand(line) = AUTHINFO_PASS

\* "AUTHINFO USER <configuredUser>\r\n"
ConfiguredUserLine ==
  <<"A", "U", "T", "H", "I", "N", "F", "O", " ", "U", "S", "E", "R", " ", "p", "r", "o", "v", "i", "d", "e", "r", "\r", "\n">>

\* "AUTHINFO PASS <configuredPass>\r\n"
ConfiguredPassLine ==
  <<"A", "U", "T", "H", "I", "N", "F", "O", " ", "P", "A", "S", "S", " ", "h", "u", "n", "t", "e", "r", "2", "\r", "\n">>

\* Line i of session s is an AUTHINFO USER line and line j the next AUTHINFO
\* PASS line of the same exchange: no other AUTHINFO USER line lies between.
Exchange(s, i, j) ==
  /\ i < j
  /\ IsUserLine(clientIn[s][i])
  /\ IsPassLine(clientIn[s][j])
  /\ \A k \in (i + 1)..(j - 1) : ~IsUserLine(clientIn[s][k])

\* C1: with a credential store configured and the session unauthenticated,
\* AUTHINFO USER <name> and later AUTHINFO PASS <secret> with (<name>,
\* <secret>) valid make the upstream receive AUTHINFO USER <configuredUser>
\* and then AUTHINFO PASS <configuredPass>; authenticated is true after the
\* PASS line and after every later line.
C1_ValidExchangeSubstitutes ==
  \A s \in Sessions : \A i \in Done(s), j \in Done(s) :
    ( /\ Configured
      /\ Exchange(s, i, j)
      /\ ~authBefore(s, i).authenticated
      /\ ~authBefore(s, j).authenticated
      /\ <<argOf(clientIn[s][i]), argOf(clientIn[s][j])>> \in store )
    => /\ upstream[s][i] = ConfiguredUserLine
       /\ upstream[s][j] = ConfiguredPassLine
       /\ \A k \in j..Len(steps[s]) : steps[s][k].authinfo.authenticated
       /\ authinfo[s].authenticated

\* alice's valid exchange was followed by one more line.
C1_Witness ==
  \E s \in Sessions :
    /\ Configured
    /\ Len(steps[s]) = 3
    /\ clientIn[s][1] = UserAlice
    /\ clientIn[s][2] = PassSecret
    /\ upstream[s][1] = ConfiguredUserLine
    /\ upstream[s][2] = ConfiguredPassLine
    /\ authinfo[s].authenticated

\* C2: when the store rejects (alice, secret), the upstream receives both
\* of the client's lines verbatim and authenticated stays false.
C2_RejectedExchangeVerbatim ==
  \A s \in Sessions : \A i \in Done(s), j \in Done(s) :
    ( /\ Configured
      /\ Exchange(s, i, j)
      /\ ~authBefore(s, i).authenticated
      /\ <<argOf(clientIn[s][i]), argOf(clientIn[s][j])>> \notin store )
    => /\ upstream[s][i] = clientIn[s][i]
       /\ upstream[s][j] = clientIn[s][j]
       /\ ~steps[s][j].authinfo.authenticated

\* C3: without a credential store, authenticated is true from the start and
\* every line, AUTHINFO lines included, is forwarded unmodified; the store is
\* never asked and no credential substituted.
C3_NoStorePassThrough ==
  ~Configured =>
    \A s \in Sessions :
      /\ authinfo[s].authenticated
      /\ pending[s] = null
      /\ Len(upstream[s]) = Len(clientIn[s])
      /\ \A i \in Done(s) :
           /\ upstream[s][i] = clientIn[s][i]
           /\ steps[s][i].lookup = null
           /\ steps[s][i].authinfo.authenticated

\* Without a store, an AUTHINFO USER and an AUTHINFO PASS line went through.
C3_Witness ==
  \E s \in Sessions :
    /\ ~Configured
    /\ Len(upstream[s]) >= 2
    /\ upstream[s][1] = UserAlice
    /\ upstream[s][2] = PassSecret

\* C4: a line that is not recognised as AUTHINFO USER or AUTHINFO PASS is
\* forwarded byte for byte and leaves AuthState as it was, in every AuthState.
C4_OtherLinesUntouched ==
  \A s \in Sessions : \A i \in Done(s) :
    (~IsUserLine(clientIn[s][i]) /\ ~IsPassLine(clientIn[s][i]))
    => /\ upstream[s][i] = clientIn[s][i]
       /\ steps[s][i].authinfo = authBefore(s, i)
       /\ steps[s][i].lookup = null

\* An unauthenticated session with a claimed user relayed "authinfo User bob".
C4_Witness ==
  \E s \in Sessions : \E i \in Done(s) :
    /\ Configured
    /\ clientIn[s][i] = MixedCaseUser
    /\ upstream[s][i] = MixedCaseUser
    /\ ~authBefore(s, i).authenticated
    /\ authBefore(s, i).user = alice

\* C5: with a store configured, an AUTHINFO PASS line with no AUTHINFO USER
\* line before it in the session is forwarded unmodified and authenticated
\* stays false, whatever the store answers for the empty user name.
C5_PassWithoutUserVerbatim ==
  \A s \in Sessions : \A j \in Done(s) :
    ( /\ Configured
      /\ IsPassLine(clientIn[s][j])
      /\ \A i \in 1..(j - 1) : ~IsUserLine(clientIn[s][i]) )
    => /\ upstream[s][j] = clientIn[s][j]
       /\ ~steps[s][j].authinfo.authenticated

\* In no step does authenticated go from true to false.
AuthenticatedStays ==
  \A s \in Sessions : authinfo[s].authenticated => authinfo'[s].authenticated

\* While authenticated, AUTHINFO lines are forwarded as they are and the
\* store is not asked.
AuthenticatedPassThrough ==
  \A s \in Sessions :
    /\ authinfo[s].authenticated => pending[s] = null
    /\ \A i \in Done(s) :
         authBefore(s, i).authenticated
         => /\ steps[s][i].authinfo.authenticated
            /\ (IsUserLine(clientIn[s][i]) \/ IsPassLine(clientIn[s][i]))
               => /\ upstream[s][i] = clientIn[s][i]
                  /\ steps[s][i].lookup = null

\* C6: authenticated is monotone, for any sequence of client lines, upstream
\* responses and store answers; while it is true every AUTHINFO line is
\* forwarded unmodified without consulting the credential store.
C6_AuthenticatedIsTerminal ==
  [][AuthenticatedStays]_vars /\ []AuthenticatedPassThrough

\* A session that authenticated through the store then relayed an AUTHINFO
\* USER line.
C6_Witness ==
  \E s \in Sessions :
    /\ Configured
    /\ Len(steps[s]) = 3
    /\ steps[s][2].authinfo.authenticated
    /\ clientIn[s][3] = UserBob
    /\ upstream[s][3] = UserBob

\* handle() of session s is rejected in this step.
Exhausts(s) == handled[s] = "pending" /\ handled'[s] = "rejected"

NothingRelayed(s) ==
  /\ clientIn[s] = <<>>
  /\ upstream[s] = <<>>
  /\ serverIn[s] = <<>>
  /\ client[s] = <<>>

\* At most five connects, the fifth failure closes, nothing relayed before.
ConnectBounded ==
  \A s \in Sessions :
    /\ state[s] = "CONNECTING" => attempt[s] + 1 <= 5
    /\ handled[s] = "rejected"
       => attempt[s] + 1 = 5 /\ state[s] = "CLOSED" /\ NothingRelayed(s)
    /\ ~NothingRelayed(s) => handled[s] = "fulfilled"

\* C8: the upstream connect is attempted at most 5 times; when all 5 fail the
\* session goes from CONNECTING directly to CLOSED, nothing having been
\* relayed for it; relaying starts only after a connect succeeded.
C8_FiveAttemptsThenClosed ==
  /\ []ConnectBounded
  /\ [][\A s \in Sessions :
          Exhausts(s) => state[s] = "CONNECTING" /\ state'[s] = "CLOSED"]_vars

\* A session was closed by its fifth failed connect.
C8_Witness ==
  \E s \in Sessions :
    handled[s] = "rejected" /\ attempt[s] = 4 /\ state[s] = "CLOSED"

\* C9: a session whose connect fails on every attempt affects only itself:
\* the listener keeps accepting and every other session keeps relaying.
C9_FailureIsIsolated ==
  [][\A s \in Sessions :
       Exhausts(s)
       => /\ alive'
          /\ \A t \in Sessions \ {s} : state'[t] = state[t]]_vars

-----------------------------------------------------------------------------
(* C11: recognition of a command in any spelling.                          *)

\* The command names that start the line when letter case is ignored.
NamesIgnoringCase(line) ==
  { toUpperCase(n) : n \in { m \in Range(COMMAND_NAMES) :
      /\ Len(m) <= Len(line)
      /\ toUpperCase(SubSeq(line, 1, Len(m))) = toUpperCase(m) } }

LongestIgnoringCase(line) ==
  CHOOSE c \in NamesIgnoringCase(line) :
    \A d \in NamesIgnoringCase(line) : Len(d) <= Len(c)

\* C11: whatever the case of the letters a line spells a command with (upper,
\* lower or mixed), parseCommand returns that command in upper case.
C11_AnySpellingRecognised ==
  output # undefined =>
    IF NamesIgnoringCase(input) = {}
      THEN output = null
      ELSE output = LongestIgnoringCase(input)

-----------------------------------------------------------------------------
(* The client->upstream pump on a byte stream cut into chunks: pipe() hands  *)
(* each chunk conn.readable yields to RequestStream.transform as it is.      *)

\* Lines in the byte stream a client sends.
MaxStreamLines == 2

RECURSIVE StreamsOf(_)
\* The byte streams made of 1..n lines of RequestLines.
StreamsOf(n) ==
  IF n = 0 THEN {}
  ELSE RequestLines
       \cup { b \o line : b \in StreamsOf(n - 1), line \in RequestLines }

\* The reads that deliver byte stream b: in one chunk, or in two cut anywhere.
ChunkingsOf(b) ==
  { <<b>> } \cup { <<SubSeq(b, 1, k), SubSeq(b, k + 1, Len(b))>> : k \in 1..(Len(b) - 1) }

Chunkings == UNION { ChunkingsOf(b) : b \in StreamsOf(MaxStreamLines) }

RECURSIVE pumpFrom(_, _, _, _)
\* transform called on chunks[k..] in turn, each call after the one before
\* it has returned: the bytes enqueued and authinfo at the end.
pumpFrom(chunks, k, auth, opts) ==
  IF k > Len(chunks) THEN [written |-> <<>>, authinfo |-> auth]
  ELSE [written  |-> transform(chunks[k], auth, opts).line
                       \o pumpFrom(chunks, k + 1,
                                   transform(chunks[k], auth, opts).authinfo,
                                   opts).written,
        authinfo |-> pumpFrom(chunks, k + 1,
                              transform(chunks[k], auth, opts).authinfo,
                              opts).authinfo]

\* pipe(conn, server, new RequestStream(options)) fed with the chunks: the
\* pair of the bytes written upstream and authinfo at the end.
requestPump(chunks, opts) ==
  << pumpFrom(chunks, 1, newAuthinfo(opts), opts).written,
     pumpFrom(chunks, 1, newAuthinfo(opts), opts).authinfo >>

InitChunks ==
  /\ InitSessions
  /\ input \in Chunkings
  /\ output = undefined

PumpCall ==
  /\ output = undefined
  /\ output' = requestPump(input, options)
  /\ UNCHANGED << sessionVars, input >>

SpecChunks == InitChunks /\ [][PumpCall]_vars

-----------------------------------------------------------------------------
(* C12: each direction relays its lines in order.                          *)

RECURSIVE Flatten(_)
\* The bytes of a sequence of chunks.
Flatten(chunks) ==
  IF Len(chunks) = 0 THEN <<>> ELSE chunks[1] \o Flatten(Tail(chunks))

RECURSIVE linesOf(_)
\* The CRLF-terminated lines of a byte stream, and its unterminated rest.
linesOf(bytes) ==
  IF \E i \in 1..(Len(bytes) - 1) : bytes[i] = "\r" /\ bytes[i + 1] = "\n"
    THEN LET i == CHOOSE k \in 1..(Len(bytes) - 1) :
                    /\ bytes[k] = "\r" /\ bytes[k + 1] = "\n"
                    /\ \A j \in 1..(k - 1) : ~(bytes[j] = "\r" /\ bytes[j + 1] = "\n")
         IN  <<SubSeq(bytes, 1, i + 1)>> \o linesOf(SubSeq(bytes, i + 2, Len(bytes)))
  ELSE IF Len(bytes) = 0 THEN <<>>
  ELSE <<bytes>>

\* C12: the lines written upstream are the lines read from the client, in
\* the order read, none dropped and none duplicated: line for line, what is
\* written is the line read or the substitute for it.
C12_LinesInOrderNoneDropped ==
  output # undefined =>
    /\ Len(linesOf(output[1])) = Len(linesOf(Flatten(input)))
    /\ \A i \in 1..Len(linesOf(output[1])) :
         \/ linesOf(output[1])[i] = linesOf(Flatten(input))[i]
         \/ /\ IsUserLine(linesOf(Flatten(input))[i])
            /\ linesOf(output[1])[i] = ConfiguredUserLine
         \/ /\ IsPassLine(linesOf(Flatten(input))[i])
            /\ linesOf(output[1])[i] = ConfiguredPassLine

-----------------------------------------------------------------------------
(* C14: the pump's output does not depend on how the stream is chunked.    *)

\* C14: for any chunking of a client byte stream, the bytes written upstream
\* and the resulting AuthState are those of the stream delivered line by line.
C14_ChunkingIrrelevant ==
  output # undefined => output = requestPump(linesOf(Flatten(input)), options)

-----------------------------------------------------------------------------
(* C13: teardown of a relaying session.                                    *)

\* A pipeline whose source ended or failed gets its target's writable closed,
\* unless the process has ended before.
SourceEndClosesTarget ==
  \A s \in Sessions : \A dir \in Directions :
    (pipes[s][dir] \in {"closing", "aborting"})
      ~> (~alive \/ targetOf(dir) \in shut[s])

\* No step of a pipeline ends the process or rejects handle().
PipeErrorsSwallowed ==
  \A s \in Sessions :
    pipes'[s] # pipes[s] /\ state[s] # "CONNECTING"
    => alive' /\ handled'[s] = handled[s]

-----------------------------------------------------------------------------
(* C15: the body of a multi-line response.                                 *)

\* C15: of a multi-line response only the status line may be rewritten: each
\* line of the body, up to and including the lone ".", reaches the client
\* byte for byte, also when it begins with a code of ResponseCodes.
C15_BodyRelayedVerbatim ==
  output # undefined =>
    /\ Len(output) = Len(input)
    /\ \A i \in 2..Len(input) : output[i] = input[i]

-----------------------------------------------------------------------------
(* C16: who changes a session's AuthState.                                 *)

\* Something of session t changes in this step.
SessionStepped(t) ==
  << state[t], attempt[t], handled[t], pending[t], pipes[t], shut[t],
     writing[t], clientIn[t], upstream[t], serverIn[t], client[t] >>'
  # << state[t], attempt[t], handled[t], pending[t], pipes[t], shut[t],
       writing[t], clientIn[t], upstream[t], serverIn[t], client[t] >>

AuthStateFrame ==
  \A s \in Sessions :
    /\ authinfo'[s] # authinfo[s]
       => /\ Len(upstream'[s]) = Len(upstream[s]) + 1
          /\ serverIn'[s] = serverIn[s]
          /\ client'[s] = client[s]
    /\ \/ authinfo'[s] = authinfo[s]
       \/ ~(serverIn' # serverIn \/ \E t \in Sessions \ {s} : SessionStepped(t))

\* C16: a session's AuthState changes only in a step of its own
\* client->upstream pump; steps of the upstream->client pump and of other
\* sessions leave it as it was.
C16_AuthStateOwnedByRequestPump == [][AuthStateFrame]_vars

\* One session authenticated through the store while another, which has
\* relayed the upstream's 281, is not authenticated.
C16_Witness ==
  \E s \in Sessions, t \in Sessions :
    /\ Configured
    /\ authinfo[s].authenticated
    /\ ~authinfo[t].authenticated
    /\ Len(serverIn[t]) > 0
    /\ serverIn[t][1] = <<"2", "8", "1", " ", "o", "k", "\r", "\n">>

-----------------------------------------------------------------------------
(* C17: the delays between connect attempts.                               *)

\* C17: the delay before jitter of the wait after the failure with attempt
\* counter k is min(100 * 2^k, 60000) ms: 100, 200, 400, 800 over the four
\* waits, strictly increasing; no delay, jitter included, exceeds 60000 ms.
C17_BackoffDoublesBelowCap ==
  output # undefined =>
    /\ Len(output) = 4
    /\ << output[1][1], output[2][1], output[3][1], output[4][1] >>
         = << 100, 200, 400, 800 >>
    /\ \A i \in 1..Len(output) :
         /\ output[i][1] = IF 100 * (2 ^ (i - 1)) <= 60000
                             THEN 100 * (2 ^ (i - 1)) ELSE 60000
         /\ i > 1 => output[i - 1][1] < output[i][1]
         /\ output[i][2] <= output[i][1]
         /\ output[i][2] <= 60000

\* The four waits were computed, the last one with no jitter taken off and
\* the first with jitter.
C17_Witness ==
  /\ output # undefined
  /\ output[4] = << 800, 800 >>
  /\ output[1][2] < 100

-----------------------------------------------------------------------------
(* C18: release of the operator's password.                                *)

\* The lines of session s for which the configured password was written in
\* place of what the client sent.
PasswordReleases(s) ==
  {i \in Done(s) : /\ upstream[s][i] = ConfiguredPassLine
                   /\ clientIn[s][i] # ConfiguredPassLine}

\* C18: with a store configured, AUTHINFO PASS <configuredPass> is written
\* by substitution only in the step in which the store accepted (claimedUser,
\* secret) of that session, and at most once in a session.
C18_PasswordOnlyAfterValidation ==
  \A s \in Sessions :
    Configured =>
      /\ Cardinality(PasswordReleases(s)) <= 1
      /\ \A i \in PasswordReleases(s) :
           /\ ~authBefore(s, i).authenticated
           /\ steps[s][i].lookup
                = <<authBefore(s, i).user, argOf(clientIn[s][i])>>
           /\ steps[s][i].lookup \in store
           /\ steps[s][i].authinfo.authenticated

\* The password was released for alice, and the AUTHINFO PASS line the client
\* sent after that went through as it was.
C18_Witness ==
  \E s \in Sessions :
    /\ Configured
    /\ Len(steps[s]) = 3
    /\ PasswordReleases(s) = {2}
    /\ clientIn[s][3] = PassSecret
    /\ upstream[s][3] = PassSecret

-----------------------------------------------------------------------------
(* C19: a rejected AUTHINFO PASS.                                          *)

\* The AUTHINFO USER lines of session s before its line j.
UserLinesBefore(s, j) == {i \in 1..(j - 1) : IsUserLine(clientIn[s][i])}

\* The name of the most recent of them, the empty string when there is none.
LastUserBefore(s, j) ==
  IF UserLinesBefore(s, j) = {} THEN <<>>
  ELSE argOf(clientIn[s][CHOOSE i \in UserLinesBefore(s, j) :
                           \A k \in UserLinesBefore(s, j) : k <= i])

\* C19: an AUTHINFO PASS line the store rejects leaves claimedUser and
\* authenticated as they were; every AUTHINFO PASS line of a session not yet
\* authenticated, however many came before, is validated, against the name
\* of the most recent AUTHINFO USER line.
C19_RejectedPassKeepsAuthState ==
  \A s \in Sessions : \A j \in Done(s) :
    /\ ( /\ Configured
         /\ IsPassLine(clientIn[s][j])
         /\ ~authBefore(s, j).authenticated )
       => steps[s][j].lookup = <<LastUserBefore(s, j), argOf(clientIn[s][j])>>
    /\ (steps[s][j].lookup # null /\ steps[s][j].lookup \notin store)
       => /\ steps[s][j].authinfo = authBefore(s, j)
          /\ ~steps[s][j].authinfo.authenticated

\* After AUTHINFO USER bob the store rejected two AUTHINFO PASS lines, both
\* validated for bob.
C19_Witness ==
  \E s \in Sessions :
    /\ Len(steps[s]) = 3
    /\ clientIn[s][1] = UserBob
    /\ steps[s][2].lookup = << <<"b", "o", "b">>, secret >>
    /\ steps[s][3].lookup = << <<"b", "o", "b">>, secret >>
    /\ ~authinfo[s].authenticated

-----------------------------------------------------------------------------
(* C20: validate() fails while an AUTHINFO PASS line is handled.           *)

\* The call of validate() for session s throws in this step, with the
\* readable side of its pipeline not cancelled before.
Throws(s) == pipes[s].request # "erroring" /\ pipes'[s].request = "erroring"

\* Nothing of session t, and nothing of the process, changes in this step.
Unaffected(t) == alive' /\ ~SessionStepped(t) /\ authinfo'[t] = authinfo[t]

\* The lookup that fails is the one of the last line handed to transform;
\* that line is not forwarded, neither in the step of the failure nor later,
\* and the session is not authenticated.
FailedLookupDropsLine ==
  \A s \in Sessions :
    /\ Throws(s)
       => /\ pending[s] = clientIn[s][Len(clientIn[s])]
          /\ pending'[s] = null
    /\ (Throws(s) \/ pipes[s].request = "erroring")
       => /\ ~authinfo'[s].authenticated
          /\ Len(upstream'[s]) = Len(clientIn'[s]) - 1

\* The failure, and the end of the pump after it, touch no other session and
\* do not end the process.
FailedLookupContained ==
  \A s \in Sessions :
    (Throws(s) \/ (pipes[s].request = "erroring" /\ pipes'[s].request = "settled"))
    => /\ alive'
       /\ handled' = handled
       /\ upstream' = upstream
       /\ authinfo' = authinfo
       /\ \A t \in Sessions \ {s} : Unaffected(t)

\* C20: when validate() itself fails for an AUTHINFO PASS line, the line is
\* not forwarded, authenticated stays false, the session's client->upstream
\* pump ends with the error handled inside pipe, and the other sessions and
\* the listener go on.
C20_FailedLookupEndsPumpOnly ==
  /\ [][FailedLookupDropsLine]_vars
  /\ [][FailedLookupContained]_vars
  /\ \A s \in Sessions :
       (pipes[s].request = "erroring") ~> (~alive \/ pipes[s].request = "settled")

\* The lookup for the first line of a session has failed; another session
\* is relaying in a running process.
C20_Witness ==
  \E s \in Sessions, t \in Sessions :
    /\ alive
    /\ pipes[s].request = "erroring"
    /\ clientIn[s] = << PassSecret >>
    /\ pending[s] = null
    /\ upstream[s] = <<>>
    /\ state[t] = "RELAYING"
    /\ upstream[t] # <<>>

====
